---- MODULE Spec2Model ----
(***************************************************************************)
(* SteamCompletionist: the invocations of main.py (sync, registry refresh, *)
(* map import, map sort) over the persisted JSON files (file_utils.py,     *)
(* steam_hltb_mapping.py), the rarity of steam_utils.py and the            *)
(* HowLongToBeat lookup ladder (hltb_utils.py).                            *)
(*                                                                         *)
(* Strings are sequences of one-character strings so that strip, split,    *)
(* lower, float() and the "%.1f" format are computed, not assumed.          *)
(* Python None is the empty sequence <<>>, a present value v is <<v>>.      *)
(***************************************************************************)
EXTENDS Integers, Sequences, FiniteSets, TLC

VARIABLES
  store,            \* data/<steamid>.json per user: list of Library Records
  noAch,            \* src/no_achievements.json: list of AppIDs
  noAchData,        \* data/no_achievements.json: list of AppIDs
  hltbMap,          \* data/steam_hltb_map.json: list of entries
  catalog,          \* Catalog Source: achievement percents per AppID
  pc,               \* position of main(): "idle", "loop", "done" (exit
                    \* status 0), "failed" (sys.exit(1) or a traceback),
                    \* "killed" (the process was stopped in the for loop)
  mode,             \* command-line flag of the running invocation
  performed,        \* primary modes the running invocation has carried out
  resolution,       \* how the user id of the running invocation was resolved
  ownedFetched,     \* get_owned_games was called in this invocation
  filesTouched,     \* persisted files opened in this invocation
  noAchBefore,      \* noAch when the running invocation started
  mapBefore,        \* hltbMap when the running invocation started
  refetchNone,      \* AppIDs whose re-fetch in update_no_achievements
                    \* returned None
  printed,          \* result lines printed by the running invocation
  timeAnswers,      \* what search_from_id answered for each HLTB ID in the
                    \* last update_hltb_completionist_times
  steamid,          \* main(): steamid of the running pass
  owned,            \* get_new_games: owned_games of the running pass
  new_games,        \* main(): new_games of the running pass
  idx,              \* scrape_and_save_data: position of the for loop
  steam_hltb_data,  \* scrape_and_save_data: AppIDs of load_existing_ids()
  attempted,        \* AppIDs the for loop has entered its body for
  errors,           \* AppIDs printed by the except clause in this pass
  collabFailure,    \* a collaborator answered with an HTTP error in this pass
  lengthFound,      \* AppIDs of this pass for whose title the Length Source
                    \* has a result
  resumed,          \* the running pass follows an interrupted pass of the
                    \* same user
  playerDown,       \* AppIDs of this pass for which GetPlayerAchievements
                    \* answers with an HTTP error while the achievement
                    \* percentages are served
  achFetched,       \* AppIDs whose achievements were fetched in this pass
  lsQueried,        \* AppIDs whose title was searched on HLTB in this pass
  storeAtStart,     \* store[steamid] when the running pass started
  repeatPass,       \* the running pass follows a pass of the same user with
                    \* the same owned_games
  passes,           \* number of invocations started
  h_pc,             \* get_hltb_data: the statement reached
  h_title,          \* get_hltb_data: the argument it was called with
  game_name,        \* get_hltb_data: game_name
  results_list,     \* get_hltb_data: results_list
  h_queries,        \* titles passed to hltb().search, in order
  h_answers,        \* what each search returned, in order
  h_ret,            \* get_hltb_data: the returned tuple
  r_data,           \* get_rarest_achievement_percentage: its argument
  r_out,            \* get_rarest_achievement_percentage: the returned string
  writers,          \* per process: the call of save_to_json or
                    \* save_appids_without_achievements it is in, with the
                    \* list it has read
  handedOver,       \* what the calls that have returned were given to save
  overlapped        \* a call has started while another was under way

\* variables of one for loop of scrape_and_save_data
passVars == <<steamid, owned, new_games, idx, steam_hltb_data, attempted,
              errors, collabFailure, playerDown, lengthFound, achFetched,
              lsQueried, storeAtStart, repeatPass, resumed>>

\* variables of one invocation of main()
modeVars == <<mode, performed, resolution, ownedFetched, filesTouched,
              noAchBefore, mapBefore, refetchNone, printed, timeAnswers>>

mainVars == <<store, noAch, noAchData, hltbMap, catalog, pc, passes,
              passVars, modeVars>>

hltbVars == <<h_pc, h_title, game_name, results_list, h_queries, h_answers,
              h_ret>>

fnVars == <<r_data, r_out, writers, handedOver, overlapped>>

vars == <<mainVars, hltbVars, fnVars>>

-----------------------------------------------------------------------------
(* Bounds                                                                  *)

MaxOwned == 2

MaxPasses == 2

MaxStore == 3

MaxData == 2

MaxTitleLen == 2

MaxResults == 2

MaxAch == 3

-----------------------------------------------------------------------------
(* Values                                                                  *)

None == <<>>

Some(v) == <<v>>

UserA == "76561198000000001"

UserB == "76561198000000002"

\* str(None): what resolve_vanity_url returns for a name that has no id
NoneStr == "None"

Users == {UserA, UserB}

\* names a data/<steamid>.json file can carry in a run of main()
StoreOwners == Users \cup {NoneStr}

AppIDs == {10, 20, 30}

Digits == <<"0", "1", "2", "3", "4", "5", "6", "7", "8", "9">>

RECURSIVE NatToStr(_)
NatToStr(n) ==
  IF n < 10 THEN <<Digits[n + 1]>>
  ELSE NatToStr(n \div 10) \o <<Digits[(n % 10) + 1]>>

DigitVal(c) == CHOOSE d \in 0..9 : Digits[d + 1] = c

RECURSIVE StrToNat(_)
StrToNat(s) ==
  IF s = <<>> THEN 0
  ELSE 10 * StrToNat(SubSeq(s, 1, Len(s) - 1)) + DigitVal(s[Len(s)])

\* f"{x:.1f}" of a value given in tenths
FormatOneDecimal(t) == NatToStr(t \div 10) \o <<".">> \o NatToStr(t % 10)

\* float(s) of a one-decimal string, in tenths
Float(s) ==
  LET dot == CHOOSE k \in 1..Len(s) : s[k] = "."
  IN 10 * StrToNat(SubSeq(s, 1, dot - 1)) + StrToNat(SubSeq(s, dot + 1, Len(s)))

\* round(x, 1) of a percent given in hundredths, in tenths.  A tie is
\* exact in binary only for .25 and .75, where Python rounds half to even.
Round1(h) ==
  LET q == h \div 10
      r == h % 10
  IN IF r < 5 THEN q
     ELSE IF r > 5 THEN q + 1
     ELSE IF q % 2 = 0 THEN q ELSE q + 1

Whitespace == {" ", "\t"}

RECURSIVE LStrip(_)
LStrip(s) ==
  IF s # <<>> /\ s[1] \in Whitespace THEN LStrip(Tail(s)) ELSE s

RECURSIVE RStrip(_)
RStrip(s) ==
  IF s # <<>> /\ s[Len(s)] \in Whitespace
  THEN RStrip(SubSeq(s, 1, Len(s) - 1)) ELSE s

Strip(s) == LStrip(RStrip(s))

RECURSIVE SeqToSet(_)
SeqToSet(s) == IF s = <<>> THEN {} ELSE {Head(s)} \cup SeqToSet(Tail(s))

RECURSIVE SortedSeq(_)
SortedSeq(S) ==
  IF S = {} THEN <<>>
  ELSE LET m == CHOOSE x \in S : \A y \in S : x <= y
       IN <<m>> \o SortedSeq(S \ {m})

\* sorted(xs) of a list of integers (duplicates are kept)
RECURSIVE SortInts(_)
SortInts(xs) ==
  IF xs = <<>> THEN <<>>
  ELSE LET rest == SortInts(Tail(xs))
           le == SelectSeq(rest, LAMBDA y : y <= Head(xs))
           gt == SelectSeq(rest, LAMBDA y : y > Head(xs))
       IN le \o <<Head(xs)>> \o gt

-----------------------------------------------------------------------------
(* Catalog Source and the games it lists                                   *)

TitleOf(a) ==
  CASE a = 10 -> <<"G", "a", "m", "e", " ", "A">>
    [] a = 20 -> <<" ", "B", " ">>
    [] OTHER -> <<"C", "\t">>

Games == {[appid |-> a, name |-> TitleOf(a)] : a \in AppIDs}

OwnedLists == UNION {[1..n -> Games] : n \in 0..MaxOwned}

Percents(hs) == [k \in 1..Len(hs) |-> [percent |-> hs[k]]]

Catalogs ==
  { [a \in AppIDs |-> CASE a = 10 -> Percents(<<5000, 1234>>)
                        [] a = 20 -> <<>>
                        [] OTHER -> Percents(<<9950>>)],
    [a \in AppIDs |-> CASE a = 10 -> Percents(<<775, 775>>)
                        [] a = 20 -> Percents(<<10000>>)
                        [] OTHER -> <<>>],
    [a \in AppIDs |-> <<>>] }

\* what the collaborators answer while one item is processed
Envs ==
  [ achHTTPError : BOOLEAN,
    player : {[HTTPError |-> TRUE, achieved |-> <<>>],
              [HTTPError |-> FALSE, achieved |-> <<TRUE, TRUE>>],
              [HTTPError |-> FALSE, achieved |-> <<TRUE, FALSE>>]},
    hltb : {<<None, None, None>>, <<Some(99), Some(TitleOf(10)), Some(1000)>>} ]

-----------------------------------------------------------------------------
(* steam_utils.py                                                          *)

get_game_achievement_data(cat, appid, httpError) ==
  IF httpError THEN None
  ELSE IF cat[appid] = <<>> THEN None
  ELSE Some(cat[appid])

\* Variant: the most common achievement is taken.
CommonestPercentage(data) ==
  LET m == CHOOSE k \in 1..Len(data) :
             \A j \in 1..Len(data) : data[k].percent >= data[j].percent
  IN FormatOneDecimal(Round1(data[m].percent))

\* min(data, key=percent) keeps the first minimal element
get_rarest_achievement_percentage(data) ==
  LET m == CHOOSE k \in 1..Len(data) :
             /\ \A j \in 1..Len(data) : data[k].percent <= data[j].percent
             /\ \A j \in 1..(k - 1) : data[j].percent > data[k].percent
  IN FormatOneDecimal(Round1(data[m].percent))

player_has_completed(player) ==
  IF player.HTTPError THEN None
  ELSE Some(\A k \in 1..Len(player.achieved) : player.achieved[k])

ScrapeResult(raised, scraped, noach, fetched, searched) ==
  [raised |-> raised, scraped_data |-> scraped, no_achievements |-> noach,
   fetched |-> fetched, searched |-> searched]

\* The for loop of scrape_steam_data from position k on.  The 3-tuple that
\* get_hltb_data returns is unpacked into two names, which raises ValueError
\* after both fetches of the item were issued.
RECURSIVE ScrapeFrom(_, _, _, _, _)
ScrapeFrom(new_games_, k, cat, env, acc) ==
  IF k > Len(new_games_)
  THEN [acc EXCEPT !.no_achievements = SortInts(@)]
  ELSE LET appid == new_games_[k].appid
           name == Strip(new_games_[k].name)
           achievements == get_game_achievement_data(cat, appid, env.achHTTPError)
           called == [acc EXCEPT !.fetched = Append(@, appid),
                                 !.searched = Append(@, appid)]
       IN IF Len(env.hltb) # 2
          THEN [called EXCEPT !.raised = TRUE]
          ELSE IF achievements = None
          THEN ScrapeFrom(new_games_, k + 1, cat, env,
                          [called EXCEPT !.no_achievements = Append(@, appid)])
          ELSE ScrapeFrom(new_games_, k + 1, cat, env,
                 [called EXCEPT !.scraped_data = Append(@,
                    [AppID |-> appid,
                     Title |-> name,
                     Rarest_Achievement |->
                       get_rarest_achievement_percentage(achievements[1]),
                     Completed |-> player_has_completed(env.player),
                     HLTB_ID |-> env.hltb[1],
                     HLTB_Completionist_Time |-> env.hltb[2]])])

scrape_steam_data(new_games_, cat, env) ==
  ScrapeFrom(new_games_, 1, cat, env,
             ScrapeResult(FALSE, <<>>, <<>>, <<>>, <<>>))

ScrapeParams == <<"steamid", "new_games", "progress_bar">>

ScrapeArgs == <<"steamid", "game", "progress_bar", "steam_hltb_data">>

\* Variant: the call binds and scrapes the one game; only a transport
\* error of the achievement request raises.
CallScrapeBinds(game, cat, env) ==
  IF env.achHTTPError
  THEN ScrapeResult(TRUE, <<>>, <<>>, <<game.appid>>, <<>>)
  ELSE IF cat[game.appid] = <<>>
  THEN ScrapeResult(FALSE, <<>>, <<game.appid>>, <<game.appid>>, <<>>)
  ELSE ScrapeResult(FALSE,
         <<[AppID |-> game.appid,
            Title |-> Strip(game.name),
            Rarest_Achievement |->
              get_rarest_achievement_percentage(cat[game.appid]),
            Completed |-> player_has_completed(env.player),
            HLTB_ID |-> env.hltb[1],
            HLTB_Completionist_Time |-> env.hltb[3]]>>,
         <<>>, <<game.appid>>, <<game.appid>>)

\* The call of scrape_and_save_data: four positional arguments for three
\* parameters raise TypeError before the body runs (with as many arguments
\* as parameters the body would run on what is passed as new_games).
CallScrape(game, cat, env) ==
  IF Len(ScrapeArgs) # Len(ScrapeParams)
  THEN ScrapeResult(TRUE, <<>>, <<>>, <<>>, <<>>)
  ELSE scrape_steam_data(game, cat, env)

-----------------------------------------------------------------------------
(* file_utils.py                                                           *)

load_existing_appids(userFile, noAchFile) ==
  {userFile[k].AppID : k \in 1..Len(userFile)} \cup SeqToSet(noAchFile)

\* list.sort(key=float(rarity), reverse=True): stable, descending
RECURSIVE SortByRarity(_)
SortByRarity(recs) ==
  IF recs = <<>> THEN <<>>
  ELSE LET r == recs[Len(recs)]
           front == SortByRarity(SubSeq(recs, 1, Len(recs) - 1))
           ge == SelectSeq(front, LAMBDA x :
                   Float(x.Rarest_Achievement) >= Float(r.Rarest_Achievement))
           lt == SelectSeq(front, LAMBDA x :
                   Float(x.Rarest_Achievement) < Float(r.Rarest_Achievement))
       IN ge \o <<r>> \o lt

\* Variant: the file is replaced by the new data.
SaveReplacing(userFile, data) == SortByRarity(data)

\* Variant: the list is written as extended, without the sort.
SaveUnsorted(userFile, data) == userFile \o data

save_to_json(userFile, data) == SortByRarity(userFile \o data)

save_appids_without_achievements(noAchFile, appids) ==
  SortedSeq(SeqToSet(noAchFile \o appids))

\* the list update_no_achievements writes: the appids whose re-fetch gives
\* None, in the order read
update_no_achievements(appids, cat, errs) ==
  SelectSeq(appids, LAMBDA appid :
    get_game_achievement_data(cat, appid, appid \in errs) = None)

-----------------------------------------------------------------------------
(* steam_hltb_mapping.py                                                   *)

load_existing_ids(mapFile) == {mapFile[k].AppID : k \in 1..Len(mapFile)}

\* the entry add_new_ids_from_users builds from one record of a user file;
\* the records of save_to_json carry no 'HLTB Title', so .get gives None
NewEntry(entry) ==
  [AppID |-> entry.AppID, Title |-> entry.Title,
   Rarest_Achievement |-> entry.Rarest_Achievement,
   HLTB_ID |-> entry.HLTB_ID, HLTB_Title |-> None,
   HLTB_Completionist_Time |-> entry.HLTB_Completionist_Time]

\* Variant: an AppID is only looked up in the file, not in new_entries.
RECURSIVE CollectUnlisted(_, _, _)
CollectUnlisted(user_data, existing_ids, new_entries) ==
  IF user_data = <<>> THEN new_entries
  ELSE CollectUnlisted(Tail(user_data), existing_ids,
         IF Head(user_data).AppID \notin existing_ids
         THEN Append(new_entries, NewEntry(Head(user_data)))
         ELSE new_entries)

\* the for loops of add_new_ids_from_users over the records of the user
\* files, in the order the files are listed; new_entries keeps insertion
\* order
RECURSIVE CollectNew(_, _, _)
CollectNew(user_data, existing_ids, new_entries) ==
  IF user_data = <<>> THEN new_entries
  ELSE LET app_id == Head(user_data).AppID
       IN CollectNew(Tail(user_data), existing_ids,
            IF /\ app_id \notin existing_ids
               /\ app_id \notin {new_entries[k].AppID :
                                   k \in 1..Len(new_entries)}
            THEN Append(new_entries, NewEntry(Head(user_data)))
            ELSE new_entries)

update_steam_hltb_map(mapFile, new_entries) == mapFile \o new_entries

Line(text, n) == [line |-> text, n |-> n]

\* the file and the line printed
add_new_ids_from_users(mapFile, user_data) ==
  LET new_entries == CollectNew(user_data, load_existing_ids(mapFile), <<>>)
  IN IF new_entries # <<>>
     THEN [map |-> update_steam_hltb_map(mapFile, new_entries),
           printed |-> Line("Added new entries", Len(new_entries))]
     ELSE [map |-> mapFile, printed |-> Line("No new entries added.", 0)]

\* Variant: the file is written as read.
KeepOrder(mapFile) == mapFile

\* sorted(data, key=AppID): stable, ascending
RECURSIVE SortByAppID(_)
SortByAppID(data) ==
  IF data = <<>> THEN <<>>
  ELSE LET e == data[Len(data)]
           front == SortByAppID(SubSeq(data, 1, Len(data) - 1))
           le == SelectSeq(front, LAMBDA x : x.AppID <= e.AppID)
           gt == SelectSeq(front, LAMBDA x : x.AppID > e.AppID)
       IN le \o <<e>> \o gt

sort_steam_hltb_map(mapFile) == SortByAppID(mapFile)

-----------------------------------------------------------------------------
(* hltb_utils.py: strings                                                  *)

\* no invocation of main() made
ModeIdle ==
  /\ mode = "none"
  /\ performed = {}
  /\ resolution = "none"
  /\ ownedFetched = FALSE
  /\ filesTouched = {}
  /\ noAchBefore = <<>>
  /\ mapBefore = <<>>
  /\ refetchNone = {}
  /\ printed = <<>>
  /\ timeAnswers = <<>>

\* no file written yet and no sync pass running
MainIdle ==
  /\ store = [u \in StoreOwners |-> <<>>]
  /\ noAch = <<>>
  /\ noAchData = <<>>
  /\ ModeIdle
  /\ hltbMap = <<>>
  /\ catalog = [a \in AppIDs |-> <<>>]
  /\ pc = "idle"
  /\ steamid = UserA
  /\ owned = <<>>
  /\ new_games = <<>>
  /\ idx = 1
  /\ steam_hltb_data = {}
  /\ attempted = <<>>
  /\ errors = <<>>
  /\ collabFailure = FALSE
  /\ playerDown = {}
  /\ lengthFound = {}
  /\ resumed = FALSE
  /\ achFetched = <<>>
  /\ lsQueried = <<>>
  /\ storeAtStart = <<>>
  /\ repeatPass = FALSE
  /\ passes = 0

\* no lookup running
HltbIdle ==
  /\ h_pc = "idle"
  /\ h_title = <<>>
  /\ game_name = <<>>
  /\ results_list = <<>>
  /\ h_queries = <<>>
  /\ h_answers = <<>>
  /\ h_ret = <<>>

\* no call of get_rarest_achievement_percentage made
FnIdle ==
  /\ r_data = <<>>
  /\ r_out = <<>>
  /\ writers = <<>>
  /\ handedOver = <<>>
  /\ overlapped = FALSE

\* a character outside \x00-\x7F is written by its code point
NonAscii == {"U+00E9", "U+2122"}

\* re.sub(r'[^\x00-\x7F]+', '', s)
StripNonAscii(s) == SelectSeq(s, LAMBDA c : c \notin NonAscii)

UpperCase == <<"A", "B", "C", "D", "E", "F", "G", "H", "I", "J", "K", "L", "M",
               "N", "O", "P", "Q", "R", "S", "T", "U", "V", "W", "X", "Y", "Z">>

LowerCase == <<"a", "b", "c", "d", "e", "f", "g", "h", "i", "j", "k", "l", "m",
               "n", "o", "p", "q", "r", "s", "t", "u", "v", "w", "x", "y", "z">>

LowerChar(c) ==
  IF \E k \in 1..Len(UpperCase) : UpperCase[k] = c
  THEN LowerCase[CHOOSE k \in 1..Len(UpperCase) : UpperCase[k] = c]
  ELSE c

\* str.lower()
Lower(s) == [k \in 1..Len(s) |-> LowerChar(s[k])]

\* str.split(): the maximal runs of non-whitespace, in order
RECURSIVE SplitFrom(_, _, _)
SplitFrom(s, k, cur) ==
  IF k > Len(s) THEN (IF cur = <<>> THEN <<>> ELSE <<cur>>)
  ELSE IF s[k] \in Whitespace
  THEN (IF cur = <<>> THEN <<>> ELSE <<cur>>) \o SplitFrom(s, k + 1, <<>>)
  ELSE SplitFrom(s, k + 1, Append(cur, s[k]))

Split(s) == SplitFrom(s, 1, <<>>)

\* s.rsplit(' ', n)[0]: what precedes the n-th space from the right, or the
\* leftmost space when there are fewer than n, or all of s when there is none
RSplitHead(s, n) ==
  LET spaces == {k \in 1..Len(s) : s[k] = " "}
      atRight(k) == Cardinality({j \in spaces : j >= k})
  IN IF spaces = {} THEN s
     ELSE IF Cardinality(spaces) <= n
     THEN SubSeq(s, 1, (CHOOSE k \in spaces : \A j \in spaces : k <= j) - 1)
     ELSE SubSeq(s, 1, (CHOOSE k \in spaces : atRight(k) = n) - 1)

Contains(s, c) == \E k \in 1..Len(s) : s[k] = c

\* s.split(c)[0]: what precedes the first c
SplitHead(s, c) ==
  IF Contains(s, c)
  THEN SubSeq(s, 1, (CHOOSE k \in 1..Len(s) :
                       s[k] = c /\ \A j \in 1..(k - 1) : s[j] # c) - 1)
  ELSE s

WordChars ==
  SeqToSet(UpperCase) \cup SeqToSet(LowerCase) \cup SeqToSet(Digits) \cup {"_"}

\* re.search(r"\s\(\w+\)$", s)
EndsWithParenthesized(s) ==
  /\ Len(s) >= 4
  /\ s[Len(s)] = ")"
  /\ \E i \in 1..(Len(s) - 3) :
       /\ s[i] \in Whitespace
       /\ s[i + 1] = "("
       /\ \A j \in (i + 2)..(Len(s) - 1) : s[j] \in WordChars

Edition == <<"e", "d", "i", "t", "i", "o", "n">>

\* Variant: some token of the title is "edition".
AnyTokenIsEdition(s) ==
  \E k \in 1..Len(Split(s)) : Lower(Split(s)[k]) = Edition

\* game_name.split()[-1].lower() == "edition", for a title with a token
LastTokenIsEdition(s) == Lower(Split(s)[Len(Split(s))]) = Edition

\* round(x, 2) of hours given in thousandths, in hundredths
Round2(t) ==
  LET q == t \div 10
      r == t % 10
  IN IF r < 5 THEN q
     ELSE IF r > 5 THEN q + 1
     ELSE IF q % 2 = 0 THEN q ELSE q + 1

Max4(a, b, c, d) ==
  CHOOSE m \in {a, b, c, d} : \A x \in {a, b, c, d} : m >= x

\* Variant: min instead of max.
WorstElement(results) ==
  results[CHOOSE k \in 1..Len(results) :
            /\ \A j \in 1..Len(results) :
                 results[k].similarity <= results[j].similarity
            /\ \A j \in 1..(k - 1) :
                 results[j].similarity > results[k].similarity]

\* max(results_list, key=similarity): the first element of greatest similarity
BestElement(results) ==
  results[CHOOSE k \in 1..Len(results) :
            /\ \A j \in 1..Len(results) :
                 results[k].similarity >= results[j].similarity
            /\ \A j \in 1..(k - 1) :
                 results[j].similarity < results[k].similarity]

\* lines 59-74 of get_hltb_data
SelectResult(results) ==
  IF Len(results) > 0
  THEN LET best_element == BestElement(results)
           time == Round2(Max4(best_element.main_story,
                               best_element.main_extra,
                               best_element.completionist,
                               best_element.all_styles))
       IN <<Some(best_element.game_id), Some(best_element.game_name),
            IF time = 0 THEN None ELSE Some(time)>>
  ELSE <<None, None, None>>

-----------------------------------------------------------------------------
(* hltb_utils.get_hltb_data, statement by statement                        *)

Str(k) ==
  CASE k = 1 -> <<"F", "o", "o", ":", " ", "B", "a", "r", " ", "E", "d", "i",
                  "t", "i", "o", "n", " ", "(", "2", "0", "2", "0", ")">>
    [] k = 2 -> <<"G", "a", "m", "e", " ", "A">>
    [] k = 3 -> <<"F", "o", "o", " ", "E", "d", "i", "t", "i", "o", "n">>
    [] k = 4 -> <<"H", "a", "l", "o", " ", "-", " ", "R", "e", "a", "c", "h">>
    [] k = 5 -> <<"F", "o", "o", "\t", "(", "H", "D", ")">>
    [] k = 6 -> <<"P", "o", "k", "U+00E9", "U+2122", " ", "G", "O", " ", "X", " ",
                  "E", "D", "I", "T", "I", "O", "N">>
    [] OTHER -> <<"U+00E9", "U+2122">>

TitleChars == {"a", " ", "U+00E9", "-", ":"}

Titles ==
  {Str(k) : k \in 1..7} \cup UNION {[1..n -> TitleChars] : n \in 0..MaxTitleLen}

Candidate(id, name, similarity, ms, me, co, al) ==
  [game_id |-> id, game_name |-> name, similarity |-> similarity,
   main_story |-> ms, main_extra |-> me, completionist |-> co,
   all_styles |-> al]

\* times in thousandths of an hour, none of them a rounding tie
Candidates ==
  { Candidate(99, Str(2), 90, 5000, 0, 10000, 0),
    Candidate(7, Str(3), 40, 0, 0, 0, 0),
    Candidate(8, Str(4), 90, 1234, 1236, 4, 0),
    Candidate(9, Str(2), 95, 4, 0, 0, 0) }

ResultLists == UNION {[1..n -> Candidates] : n \in 0..MaxResults}

InitHltb ==
  /\ MainIdle
  /\ FnIdle
  /\ h_title \in Titles
  /\ game_name = h_title
  /\ h_pc = "search"
  /\ results_list = <<>>
  /\ h_queries = <<>>
  /\ h_answers = <<>>
  /\ h_ret = <<>>

\* results_list = hltb().search(q)
Searched(q, res) ==
  /\ results_list' = res
  /\ h_queries' = Append(h_queries, q)
  /\ h_answers' = Append(h_answers, res)

\* no search is made by this statement (res is then not drawn)
NotSearched(res) ==
  /\ res = <<>>
  /\ UNCHANGED <<results_list, h_queries, h_answers>>

\* line 32
HltbSearch(res) ==
  /\ h_pc = "search"
  /\ Searched(game_name, res)
  /\ h_pc' = "ascii"
  /\ UNCHANGED <<h_title, game_name, h_ret>>
  /\ UNCHANGED <<mainVars, fnVars>>

\* lines 35-37
HltbAscii(res) ==
  /\ h_pc = "ascii"
  /\ IF results_list = <<>>
     THEN /\ game_name' = StripNonAscii(game_name)
          /\ Searched(game_name', res)
     ELSE NotSearched(res) /\ UNCHANGED game_name
  /\ h_pc' = "lower"
  /\ UNCHANGED <<h_title, h_ret>>
  /\ UNCHANGED <<mainVars, fnVars>>

\* lines 40-41
HltbLower(res) ==
  /\ h_pc = "lower"
  /\ IF results_list = <<>>
     THEN Searched(Lower(game_name), res)
     ELSE NotSearched(res)
  /\ h_pc' = "edition"
  /\ UNCHANGED <<h_title, game_name, h_ret>>
  /\ UNCHANGED <<mainVars, fnVars>>

\* lines 44-45; [-1] of an empty split() raises IndexError
HltbEdition(res) ==
  /\ h_pc = "edition"
  /\ IF results_list # <<>>
     THEN NotSearched(res) /\ h_pc' = "year"
     ELSE IF Split(game_name) = <<>>
     THEN NotSearched(res) /\ h_pc' = "raised"
     ELSE IF LastTokenIsEdition(game_name)
     THEN Searched(RSplitHead(game_name, 2), res) /\ h_pc' = "year"
     ELSE NotSearched(res) /\ h_pc' = "year"
  /\ UNCHANGED <<h_title, game_name, h_ret>>
  /\ UNCHANGED <<mainVars, fnVars>>

\* lines 48-49
HltbYear(res) ==
  /\ h_pc = "year"
  /\ IF results_list = <<>> /\ EndsWithParenthesized(game_name)
     THEN Searched(RSplitHead(game_name, 1), res)
     ELSE NotSearched(res)
  /\ h_pc' = "dash"
  /\ UNCHANGED <<h_title, game_name, h_ret>>
  /\ UNCHANGED <<mainVars, fnVars>>

\* lines 52-53
HltbDash(res) ==
  /\ h_pc = "dash"
  /\ IF results_list = <<>> /\ Contains(game_name, "-")
     THEN Searched(SplitHead(game_name, "-"), res)
     ELSE NotSearched(res)
  /\ h_pc' = "colon"
  /\ UNCHANGED <<h_title, game_name, h_ret>>
  /\ UNCHANGED <<mainVars, fnVars>>

\* Variant: the colon rung searches whatever the earlier searches returned.
HltbColonAlways(res) ==
  /\ h_pc = "colon"
  /\ IF Contains(game_name, ":")
     THEN Searched(SplitHead(game_name, ":"), res)
     ELSE NotSearched(res)
  /\ h_pc' = "select"
  /\ UNCHANGED <<h_title, game_name, h_ret>>
  /\ UNCHANGED <<mainVars, fnVars>>

\* lines 56-57
HltbColon(res) ==
  /\ h_pc = "colon"
  /\ IF results_list = <<>> /\ Contains(game_name, ":")
     THEN Searched(SplitHead(game_name, ":"), res)
     ELSE NotSearched(res)
  /\ h_pc' = "select"
  /\ UNCHANGED <<h_title, game_name, h_ret>>
  /\ UNCHANGED <<mainVars, fnVars>>

\* lines 59-74
HltbReturn ==
  /\ h_pc = "select"
  /\ h_ret' = SelectResult(results_list)
  /\ h_pc' = "returned"
  /\ UNCHANGED <<h_title, game_name, results_list, h_queries, h_answers>>
  /\ UNCHANGED <<mainVars, fnVars>>

NextHltb ==
  \/ \E res \in ResultLists : HltbSearch(res)
  \/ \E res \in ResultLists : HltbAscii(res)
  \/ \E res \in ResultLists : HltbLower(res)
  \/ \E res \in ResultLists : HltbEdition(res)
  \/ \E res \in ResultLists : HltbYear(res)
  \/ \E res \in ResultLists : HltbDash(res)
  \/ \E res \in ResultLists : HltbColon(res)
  \/ HltbReturn

SpecHltb == InitHltb /\ [][NextHltb]_vars

-----------------------------------------------------------------------------
(* Persisted files the program starts from                                 *)

Rec(a, tenths, completed, hid, htime) ==
  [AppID |-> a, Title |-> Strip(TitleOf(a)),
   Rarest_Achievement |-> FormatOneDecimal(tenths), Completed |-> completed,
   HLTB_ID |-> hid, HLTB_Completionist_Time |-> htime]

MapEntry(a, tenths, hid, htitle, htime) ==
  [AppID |-> a, Title |-> Strip(TitleOf(a)),
   Rarest_Achievement |-> FormatOneDecimal(tenths),
   HLTB_ID |-> hid, HLTB_Title |-> htitle, HLTB_Completionist_Time |-> htime]

InitStores ==
  { [u \in StoreOwners |-> <<>>],
    [u \in StoreOwners |-> IF u = UserA
                     THEN <<Rec(30, 995, Some(FALSE), None, None)>>
                     ELSE <<>>],
    [u \in StoreOwners |->
       CASE u = UserA -> <<Rec(30, 995, Some(FALSE), None, None),
                           Rec(10, 123, Some(TRUE), Some(99), Some(1000))>>
         [] u = UserB -> <<Rec(10, 124, None, Some(98), None)>>
         [] OTHER -> <<>>] }

InitNoAch == {<<>>, <<20>>}

InitMaps == {<<>>, <<MapEntry(10, 123, Some(99), Some(TitleOf(10)), Some(1000))>>}

-----------------------------------------------------------------------------
(* main.py: the invocations of main() and the sync pass                    *)

\* Variant: only the user's file counts as already scanned.
NewGamesNotInStore(userFile, noAchFile, owned_games) ==
  SelectSeq(owned_games, LAMBDA game :
    game.appid \notin {userFile[k].AppID : k \in 1..Len(userFile)})

get_new_games(userFile, noAchFile, owned_games) ==
  LET existing_appids == load_existing_appids(userFile, noAchFile)
  IN SelectSeq(owned_games, LAMBDA game : game.appid \notin existing_appids)

\* the state before the first invocation, but for data/no_achievements.json
InitExceptData ==
  /\ store \in InitStores
  /\ noAch \in InitNoAch
  /\ ModeIdle
  /\ hltbMap \in InitMaps
  /\ catalog \in Catalogs
  /\ pc = "idle"
  /\ steamid = UserA
  /\ owned = <<>>
  /\ new_games = <<>>
  /\ idx = 1
  /\ steam_hltb_data = {}
  /\ attempted = <<>>
  /\ errors = <<>>
  /\ collabFailure = FALSE
  /\ playerDown = {}
  /\ lengthFound = {}
  /\ resumed = FALSE
  /\ achFetched = <<>>
  /\ lsQueried = <<>>
  /\ storeAtStart = <<>>
  /\ repeatPass = FALSE
  /\ passes = 0
  /\ HltbIdle
  /\ FnIdle

Init ==
  /\ InitExceptData
  \* data/no_achievements.json is absent, or holds what the registry holds
  /\ noAchData = IF noAch = <<>> THEN None ELSE Some(noAch)

\* main() is entered when the previous invocation has ended
Start(flag) ==
  /\ pc \in {"idle", "done", "failed", "killed"}
  /\ passes < MaxPasses
  /\ passes' = passes + 1
  /\ mode' = flag
  /\ noAchBefore' = noAch
  /\ mapBefore' = hltbMap
  /\ timeAnswers' = <<>>
  /\ UNCHANGED <<store, noAchData, catalog>>

\* this invocation does not reach the for loop of scrape_and_save_data
NoPass ==
  /\ owned' = <<>>
  /\ new_games' = <<>>
  /\ idx' = 1
  /\ steam_hltb_data' = {}
  /\ attempted' = <<>>
  /\ errors' = <<>>
  /\ collabFailure' = FALSE
  /\ playerDown' = {}
  /\ lengthFound' = {}
  /\ resumed' = FALSE
  /\ achFetched' = <<>>
  /\ lsQueried' = <<>>
  /\ storeAtStart' = <<>>
  /\ repeatPass' = FALSE
  /\ UNCHANGED steamid

\* an uncaught exception or sys.exit(1) before get_new_games
Abort(pre, out, touched) ==
  /\ pc' = "failed"
  /\ performed' = pre
  /\ printed' = out
  /\ filesTouched' = touched
  /\ ownedFetched' = FALSE
  /\ refetchNone' = {}
  /\ NoPass
  /\ UNCHANGED noAch

\* what GetOwnedGames answers
Answer(owned_games) == [raised |-> FALSE, games |-> owned_games]

Refused == [raised |-> TRUE, games |-> <<>>]

\* main(): get_new_games(steamid), exit when nothing is new, else
\* scrape_and_save_data up to its for loop.  pre, out and touched are the
\* modes carried out, the lines printed and the files opened before.
BeginSync(u, ans, pre, out, touched) ==
  /\ steamid' = u
  /\ performed' = pre \cup {"sync"}
  /\ ownedFetched' = TRUE
  /\ refetchNone' = {}
  /\ storeAtStart' = store[u]
  /\ repeatPass' = (/\ ~ans.raised
                    /\ "sync" \in performed
                    /\ pc = "done"
                    /\ u = steamid
                    /\ ans.games = owned)
  /\ idx' = 1
  /\ attempted' = <<>>
  /\ errors' = <<>>
  /\ collabFailure' = FALSE
  /\ playerDown' = {}
  /\ lengthFound' = {}
  /\ resumed' = (/\ ~ans.raised
                 /\ "sync" \in performed
                 /\ pc = "killed"
                 /\ u = steamid)
  /\ achFetched' = <<>>
  /\ lsQueried' = <<>>
  /\ owned' = ans.games
  /\ new_games' = IF ans.raised THEN <<>>
                  ELSE get_new_games(store[u], noAch, ans.games)
  /\ IF ans.raised
     THEN /\ pc' = "failed"
          /\ steam_hltb_data' = {}
          /\ printed' = out
          /\ filesTouched' = touched \cup {"user", "registry"}
     ELSE IF new_games' = <<>>
     THEN /\ pc' = "done"
          /\ steam_hltb_data' = {}
          /\ printed' = Append(out, Line("No new games found to update.", 0))
          /\ filesTouched' = touched \cup {"user", "registry"}
     ELSE /\ pc' = "loop"
          /\ steam_hltb_data' = load_existing_ids(hltbMap')
          /\ printed' = out
          /\ filesTouched' = touched \cup {"user", "registry", "map"}
  /\ UNCHANGED noAch

\* main() with -s: resolve_steamid takes the id as given
SyncStart(u, owned_games) ==
  /\ Start("-s")
  /\ UNCHANGED hltbMap
  /\ resolution' = "given"
  /\ BeginSync(u, Answer(owned_games), {}, <<>>, {})
  /\ UNCHANGED <<hltbVars, fnVars>>

\* what steam64_from_url answers: an id, None, or a RequestException
VanityAnswers ==
  {[raised |-> TRUE, id |-> None], [raised |-> FALSE, id |-> None]}
    \cup {[raised |-> FALSE, id |-> Some(u)] : u \in Users}

\* str() of an id or of None
PyStr(v) == IF v = None THEN NoneStr ELSE v[1]

\* if steam_id: a string is true unless it is empty
Truthy(str) == str # ""

\* the steamid returned, a ValueError, or sys.exit(1)
resolve_vanity_url(ans) ==
  IF ans.raised THEN [exit |-> TRUE, ValueError |-> FALSE, steam_id |-> None]
  ELSE LET steam_id == PyStr(ans.id)
       IN IF Truthy(steam_id)
          THEN [exit |-> FALSE, ValueError |-> FALSE,
                steam_id |-> Some(steam_id)]
          ELSE [exit |-> FALSE, ValueError |-> TRUE, steam_id |-> None]

\* main() with -v
VanityStart(ans, fetch) ==
  /\ Start("-v")
  /\ UNCHANGED hltbMap
  /\ (fetch.raised => ans.id = None)
  /\ (ans.raised => fetch.raised)
  /\ LET r == resolve_vanity_url(ans)
     IN IF r.exit
        THEN resolution' = "RequestException" /\ Abort({}, <<>>, {})
        ELSE IF r.ValueError \/ r.steam_id = None
        THEN resolution' = "ValueError" /\ Abort({}, <<>>, {})
        ELSE /\ resolution' = IF ans.id = None THEN "unmapped" ELSE "resolved"
             /\ BeginSync(r.steam_id[1], fetch, {}, <<>>, {})
  /\ UNCHANGED <<hltbVars, fnVars>>

\* STEAM_ID of config.py: the template's placeholder or an id
ConfigIds == {UserA, "YOUR_ID_HERE"}

\* steamid.isdigit() and len(steamid) == 17
ValidSteamId(str) == str \in Users

\* resolve_steamid without -s and -v, then the rest of main()
DefaultSync(cfg, owned_games, pre, out, touched) ==
  IF ValidSteamId(cfg)
  THEN /\ resolution' = "config"
       /\ BeginSync(cfg, Answer(owned_games), pre, out, touched)
  ELSE /\ resolution' = "ValueError"
       /\ Abort(pre, out, touched)

\* main() without a flag
DefaultStart(cfg, owned_games) ==
  /\ Start("")
  /\ UNCHANGED hltbMap
  /\ DefaultSync(cfg, owned_games, {}, <<>>, {})
  /\ UNCHANGED <<hltbVars, fnVars>>

\* main() with --sort: sort_steam_hltb_map() is not followed by sys.exit()
SortStart(cfg, owned_games) ==
  /\ Start("--sort")
  /\ hltbMap' = sort_steam_hltb_map(hltbMap)
  /\ DefaultSync(cfg, owned_games, {"sort"},
                 <<Line("steam_hltb_map.json has been sorted.", 0)>>, {"map"})
  /\ UNCHANGED <<hltbVars, fnVars>>

\* orders in which os.walk can list the user files
UserFileOrders == {<<UserA, UserB>>, <<UserB, UserA>>}

\* main() with -m: add_new_ids_from_users(); sys.exit()
MapUpdate(user_json_files) ==
  /\ Start("-m")
  /\ LET user_data == store[user_json_files[1]] \o store[user_json_files[2]]
         r == add_new_ids_from_users(hltbMap, user_data)
     IN /\ hltbMap' = r.map
        /\ printed' = <<r.printed>>
  /\ performed' = {"import"}
  /\ resolution' = "none"
  /\ filesTouched' = {"map", "user"}
  /\ ownedFetched' = FALSE
  /\ refetchNone' = {}
  /\ pc' = "done"
  /\ NoPass
  /\ UNCHANGED noAch
  /\ UNCHANGED <<hltbVars, fnVars>>

\* main() with -u: handle_update_no_achievements(); sys.exit().  errs are
\* the AppIDs whose re-fetch ends in an HTTP error.
UpdateNoAchievements(errs) ==
  /\ Start("-u")
  /\ performed' = {"refresh"}
  /\ resolution' = "none"
  /\ ownedFetched' = FALSE
  /\ NoPass
  /\ IF noAchData = None
     THEN /\ errs = {}
          /\ pc' = "failed"
          /\ filesTouched' = {}
          /\ refetchNone' = {}
          /\ printed' = <<>>
          /\ UNCHANGED noAch
     ELSE LET appids == noAchData[1]
          IN /\ errs \subseteq SeqToSet(appids)
             /\ pc' = "done"
             /\ filesTouched' = {"data_registry", "registry"}
             /\ refetchNone' =
                  {a \in SeqToSet(appids) :
                     get_game_achievement_data(catalog, a, a \in errs) = None}
             /\ noAch' = update_no_achievements(appids, catalog, errs)
             /\ printed' = <<Line("Removed appid(s)",
                                  Len(appids) - Len(noAch'))>>
  /\ UNCHANGED hltbMap
  /\ UNCHANGED <<hltbVars, fnVars>>

\* Variant: the except clause leaves the loop.
AfterErrorBreak(i, n) == n + 1

\* position of the for loop after the except clause: continue
AfterError(i, n) == i + 1

\* one iteration of the for loop of scrape_and_save_data
SyncItem(env) ==
  /\ pc = "loop"
  /\ LET game == new_games[idx]
         r == CallScrape(game, catalog, env)
         next == IF r.raised THEN AfterError(idx, Len(new_games)) ELSE idx + 1
     IN /\ attempted' = Append(attempted, game.appid)
        /\ collabFailure' = (collabFailure \/ env.achHTTPError
                                \/ env.player.HTTPError)
        /\ playerDown' = IF env.player.HTTPError /\ ~env.achHTTPError
                         THEN playerDown \cup {game.appid}
                         ELSE playerDown
        /\ lengthFound' = IF env.hltb[2] = Some(game.name)
                          THEN lengthFound \cup {game.appid}
                          ELSE lengthFound
        /\ achFetched' = achFetched \o r.fetched
        /\ lsQueried' = lsQueried \o r.searched
        /\ IF r.raised
           THEN /\ errors' = Append(errors, game.appid)
                /\ UNCHANGED <<store, noAch>>
           ELSE /\ store' = [store EXCEPT ![steamid] =
                                save_to_json(@, r.scraped_data)]
                /\ noAch' = save_appids_without_achievements(noAch,
                                                             r.no_achievements)
                /\ UNCHANGED errors
        /\ idx' = next
        /\ pc' = IF next > Len(new_games) THEN "done" ELSE "loop"
  /\ UNCHANGED <<noAchData, hltbMap, catalog, passes, steamid, owned,
                 new_games, steam_hltb_data, storeAtStart, repeatPass,
                 resumed>>
  /\ UNCHANGED modeVars
  /\ UNCHANGED <<hltbVars, fnVars>>

\* the process is stopped between two iterations of the for loop
Interrupt ==
  /\ pc = "loop"
  /\ pc' = "killed"
  /\ UNCHANGED <<store, noAch, noAchData, hltbMap, catalog, passes, passVars,
                 modeVars>>
  /\ UNCHANGED <<hltbVars, fnVars>>

\* ownership lists the runs of the second user and the runs without -s are
\* tried on
ShortLists == {l \in OwnedLists : Len(l) <= 1}

Next ==
  \/ \E owned_games \in OwnedLists : SyncStart(UserA, owned_games)
  \/ \E owned_games \in ShortLists : SyncStart(UserB, owned_games)
  \/ \E ans \in VanityAnswers,
        fetch \in {Refused} \cup {Answer(l) : l \in ShortLists} :
       VanityStart(ans, fetch)
  \/ \E cfg \in ConfigIds, owned_games \in ShortLists :
       DefaultStart(cfg, owned_games)
  \/ \E cfg \in ConfigIds, owned_games \in ShortLists :
       SortStart(cfg, owned_games)
  \/ \E user_json_files \in UserFileOrders : MapUpdate(user_json_files)
  \/ \E errs \in SUBSET AppIDs : UpdateNoAchievements(errs)
  \/ \E env \in Envs : SyncItem(env)

Spec == Init /\ [][Next]_vars

-----------------------------------------------------------------------------
(* main.py: sync passes and registry refreshes, a pass possibly stopped   *)

InitSync ==
  /\ InitExceptData
  /\ hltbMap = <<>>
  \* data/no_achievements.json, which no function writes, is absent, holds
  \* what the registry holds, or holds a list written by hand
  /\ noAchData \in IF noAch = <<>> THEN {None}
                   ELSE {Some(noAch), Some(<<30, 20>>)}

\* the achievement percentages are served or not; the player's achievements
\* are served and the Length Source finds nothing
SyncEnvs ==
  {env \in Envs : /\ env.hltb[1] = None
                  /\ env.player = [HTTPError |-> FALSE, achieved |-> <<TRUE, TRUE>>]}

NextSync ==
  \/ \E owned_games \in OwnedLists : SyncStart(UserA, owned_games)
  \/ \E owned_games \in ShortLists : SyncStart(UserB, owned_games)
  \/ \E errs \in SUBSET AppIDs : UpdateNoAchievements(errs)
  \/ \E env \in SyncEnvs : SyncItem(env)
  \/ Interrupt

SpecSync == InitSync /\ [][NextSync]_vars

-----------------------------------------------------------------------------
(* file_utils.save_to_json called on its own                               *)

SaveRecs ==
  { Rec(10, 1000, Some(TRUE), None, None),
    Rec(20, 95, None, None, None),
    Rec(30, 123, Some(FALSE), Some(99), Some(1000)) }

DataLists == UNION {[1..n -> SaveRecs] : n \in 0..MaxData}

InitSave == MainIdle /\ HltbIdle /\ FnIdle

SaveToJson(u, data) ==
  /\ Len(store[u]) + Len(data) <= MaxStore
  /\ store' = [store EXCEPT ![u] = save_to_json(@, data)]
  /\ UNCHANGED <<noAch, noAchData, hltbMap, catalog, pc, passes, passVars,
                 modeVars>>
  /\ UNCHANGED <<hltbVars, fnVars>>

NextSave == \E u \in Users, data \in DataLists : SaveToJson(u, data)

SpecSave == InitSave /\ [][NextSave]_vars

-----------------------------------------------------------------------------
(* Properties of the sync pass                                             *)

StoreCount(u, a) ==
  Cardinality({j \in 1..Len(store[u]) : store[u][j].AppID = a})

PendingCount(a) ==
  Cardinality({k \in 1..Len(new_games) : new_games[k].appid = a})

PassDone == pc = "done" /\ "sync" \in performed

MinPercent(data) ==
  CHOOSE p \in {data[k].percent : k \in 1..Len(data)} :
    \A k \in 1..Len(data) : p <= data[k].percent

\* C1: when a pass ends without collaborator failure, every pending item
\* that has achievements has exactly one Library Record in the user's store,
\* with Title, Rarest Achievement % (minimum percent, one decimal), Completed,
\* HLTB ID, HLTB Title and HLTB Completionist Time.
C1_SyncAppendsRecord ==
  (PassDone /\ ~collabFailure) =>
    \A k \in 1..Len(new_games) :
      LET a == new_games[k].appid
      IN (catalog[a] # <<>> /\ PendingCount(a) = 1) =>
           /\ StoreCount(steamid, a) = 1
           /\ \E j \in 1..Len(store[steamid]) :
                LET rec == store[steamid][j]
                IN /\ rec.AppID = a
                   /\ rec.Title = Strip(new_games[k].name)
                   /\ rec.Rarest_Achievement =
                        FormatOneDecimal(Round1(MinPercent(catalog[a])))
                   /\ {"Completed", "HLTB_ID", "HLTB_Title",
                       "HLTB_Completionist_Time"} \subseteq DOMAIN rec

\* C2: no AppID appears twice in a user's persisted Library Store, whatever
\* ownership lists the sync passes were given.
C2_NoDuplicateAppID ==
  \A u \in Users : \A i, j \in 1..Len(store[u]) :
    store[u][i].AppID = store[u][j].AppID => i = j

\* a pass over an ownership list that repeats a pending AppID has ended
C2_Witness ==
  /\ PassDone
  /\ \E a \in AppIDs : PendingCount(a) = 2 /\ catalog[a] # <<>>

\* C3: every persisted Library Store is ordered by non-increasing numeric
\* value of Rarest Achievement %.
C3_StoreSortedByRarity ==
  \A u \in Users : \A k \in 1..(Len(store[u]) - 1) :
    Float(store[u][k].Rarest_Achievement) >=
      Float(store[u][k + 1].Rarest_Achievement)

\* a store written by save_to_json holds 100.0, 12.3 and 9.5, whose order as
\* numbers differs from their order as strings and from any append order
C3_Witness ==
  \E u \in Users :
    /\ Len(store[u]) = 3
    /\ {Float(store[u][k].Rarest_Achievement) : k \in 1..3} = {1000, 123, 95}

\* C4: a pass that directly follows a pass of the same user with the same
\* ownership list adds no Library Record: the user's store stays as the
\* second pass found it.
C4_SecondPassAddsNothing ==
  repeatPass => store[steamid] = storeAtStart

\* the second of two such passes has ended, with owned items still pending
C4_Witness ==
  repeatPass /\ PassDone /\ new_games # <<>> /\ Len(attempted) = Len(new_games)

\* C5: when a pass ends, every pending item whose achievement list is empty
\* has no Library Record, is in the persisted No-Achievements Registry and
\* was passed without an error being reported.
C5_EmptyAchievementsRegistered ==
  (PassDone /\ ~collabFailure) =>
    \A k \in 1..Len(new_games) :
      LET a == new_games[k].appid
      IN catalog[a] = <<>> =>
           /\ StoreCount(steamid, a) = 0
           /\ a \in SeqToSet(noAch)
           /\ a \notin SeqToSet(errors)

\* C6: an error on one pending item skips that item only: the loop enters
\* its body for every pending item in order, every item reported as an error
\* was attempted, and the records the store held stay in it.
C6_ErrorSkipsOneItem ==
  /\ PassDone =>
       attempted = [k \in 1..Len(new_games) |-> new_games[k].appid]
  /\ pc = "loop" =>
       /\ idx <= Len(new_games)
       /\ attempted = [k \in 1..(idx - 1) |-> new_games[k].appid]
  /\ SeqToSet(errors) \subseteq SeqToSet(attempted)
  /\ pc # "idle" =>
       \A j \in 1..Len(storeAtStart) :
         \E i \in 1..Len(store[steamid]) : store[steamid][i] = storeAtStart[j]

\* a pass has ended whose first item raised and whose later item was entered
C6_Witness ==
  /\ PassDone
  /\ Len(new_games) >= 2
  /\ errors # <<>>
  /\ errors[1] = new_games[1].appid
  /\ Len(attempted) = Len(new_games)

MapEntryOf(a) == CHOOSE e \in SeqToSet(hltbMap) : e.AppID = a

\* C7: when a pass ends, no pending item whose AppID is in the Length Lookup
\* Cache was searched on the Length Source, and the Library Record of such
\* an item (one with achievements) carries the cached length fields.
C7_CachedLengthReused ==
  (PassDone /\ ~collabFailure) =>
    \A k \in 1..Len(new_games) :
      LET a == new_games[k].appid
      IN a \in steam_hltb_data =>
           /\ a \notin SeqToSet(lsQueried)
           /\ catalog[a] # <<>> =>
                \E j \in 1..Len(store[steamid]) :
                  LET rec == store[steamid][j]
                  IN /\ rec.AppID = a
                     /\ rec.HLTB_ID = MapEntryOf(a).HLTB_ID
                     /\ rec.HLTB_Completionist_Time =
                          MapEntryOf(a).HLTB_Completionist_Time

-----------------------------------------------------------------------------
(* Properties of the length lookup                                         *)

AllSearchesEmpty == \A k \in 1..Len(h_answers) : h_answers[k] = <<>>

FooBarEdition2020 ==
  <<"F", "o", "o", ":", " ", "B", "a", "r", " ", "E", "d", "i", "t", "i", "o",
    "n", " ", "(", "2", "0", "2", "0", ")">>

FooBarEdition2020Lower ==
  <<"f", "o", "o", ":", " ", "b", "a", "r", " ", "e", "d", "i", "t", "i", "o",
    "n", " ", "(", "2", "0", "2", "0", ")">>

FooBarEdition ==
  <<"F", "o", "o", ":", " ", "B", "a", "r", " ", "E", "d", "i", "t", "i", "o",
    "n">>

FooBar == <<"F", "o", "o", ":", " ", "B", "a", "r">>

Foo == <<"F", "o", "o">>

LadderExhaustedForFoo ==
  h_title = FooBarEdition2020 /\ h_pc = "returned" /\ AllSearchesEmpty

\* C8 as stated: for "Foo: Bar Edition (2020)" with every search empty, the
\* queries after the first are the ASCII-stripped title, the lower-cased
\* title, "Foo: Bar", the year-stripped title and "Foo".
C8_LadderWithEditionRung ==
  LadderExhaustedForFoo =>
    h_queries = <<FooBarEdition2020, FooBarEdition2020, FooBarEdition2020Lower,
                  FooBar, FooBarEdition, Foo>>

\* C8 amended: for "Foo: Bar Edition (2020)" with every search empty, the
\* queries after the first are the ASCII-stripped title, the lower-cased
\* title, the year-stripped title "Foo: Bar Edition" and "Foo"; "Foo: Bar"
\* is not searched, the last token being "(2020)"; the result is absent.
C8_LadderForFoo ==
  LadderExhaustedForFoo =>
    /\ h_queries = <<FooBarEdition2020, FooBarEdition2020,
                     FooBarEdition2020Lower, FooBarEdition, Foo>>
    /\ h_ret = <<None, None, None>>

C8_Witness == LadderExhaustedForFoo /\ Len(h_answers) = 5

\* C9: for every title, when every search returns no candidates the lookup
\* raises no error and returns (None, None, None).
C9_ExhaustedLadderIsAbsent ==
  AllSearchesEmpty =>
    /\ h_pc # "raised"
    /\ h_pc = "returned" => h_ret = <<None, None, None>>

MaxSimilarity(c) ==
  \A k \in 1..Len(results_list) : c.similarity >= results_list[k].similarity

MaxTime(c) == Max4(c.main_story, c.main_extra, c.completionist, c.all_styles)

\* C10 as stated: the result comes from a candidate of maximum similarity,
\* its time equals the maximum of the candidate's four times, and it is
\* absent exactly when that maximum is zero.
C10_TimeIsMaximum ==
  (h_pc = "returned" /\ results_list # <<>>) =>
    \E k \in 1..Len(results_list) :
      LET c == results_list[k]
      IN /\ MaxSimilarity(c)
         /\ h_ret[1] = Some(c.game_id)
         /\ h_ret[2] = Some(c.game_name)
         /\ IF MaxTime(c) = 0 THEN h_ret[3] = None
            ELSE h_ret[3] # None /\ 10 * h_ret[3][1] = MaxTime(c)

\* C10 amended: the result comes from a candidate of maximum similarity and
\* its time is the maximum of the candidate's four times rounded to two
\* decimals (within 0.005 of it); it is absent, never zero, when that rounds
\* to zero, as it does for a maximum of exactly zero.
C10_TimeIsRoundedMaximum ==
  (h_pc = "returned" /\ results_list # <<>>) =>
    \E k \in 1..Len(results_list) :
      LET c == results_list[k]
      IN /\ MaxSimilarity(c)
         /\ h_ret[1] = Some(c.game_id)
         /\ h_ret[2] = Some(c.game_name)
         /\ MaxTime(c) = 0 => h_ret[3] = None
         /\ h_ret[3] = None => MaxTime(c) < 5
         /\ h_ret[3] # None =>
              /\ h_ret[3][1] > 0
              /\ 10 * h_ret[3][1] - MaxTime(c) \in -5..5

\* a lookup returned the second, more similar candidate, whose greatest time
\* 1.236 is reported as 1.24
C10_Witness ==
  /\ h_pc = "returned"
  /\ Len(results_list) = 2
  /\ results_list[1].similarity < results_list[2].similarity
  /\ MaxTime(results_list[2]) = 1236
  /\ h_ret[3] = Some(124)

\* C18: a retry rung is searched only when every search before it returned
\* no candidates: after a search that returns candidates no further query is
\* issued, and the result is taken from those candidates.
C18_NoSearchAfterCandidates ==
  /\ Len(h_answers) = Len(h_queries)
  /\ \A k \in 1..(Len(h_answers) - 1) : h_answers[k] = <<>>
  /\ (h_pc = "returned" /\ h_answers[Len(h_answers)] # <<>>) =>
       \E c \in SeqToSet(h_answers[Len(h_answers)]) :
         h_ret[1] = Some(c.game_id) /\ h_ret[2] = Some(c.game_name)

\* the third search returned candidates for a title whose colon rung would
\* otherwise have searched
C18_Witness ==
  /\ h_pc = "returned"
  /\ Len(h_queries) = 3
  /\ h_answers[3] # <<>>
  /\ Contains(game_name, ":")

-----------------------------------------------------------------------------
(* Properties of the invocations of main()                                 *)

\* C12: a run with -v whose name cannot be mapped to a user id, or whose
\* resolution meets a transport failure, ends in failure before any work:
\* the ownership list is not fetched and no persisted file is opened.
C12_UnresolvedVanityAborts ==
  (mode = "-v" /\ resolution # "resolved") =>
    /\ pc = "failed"
    /\ ~ownedFetched
    /\ filesTouched = {}

\* C13: an invocation carries out one primary mode only (sync, registry
\* refresh, cache import or cache sort); a run with --sort resolves no user
\* and runs no sync.
C13_OnePrimaryMode ==
  /\ Cardinality(performed) <= 1
  /\ mode = "--sort" =>
       /\ "sync" \notin performed
       /\ resolution = "none"
       /\ ~ownedFetched

MapCount(a) ==
  Cardinality({k \in 1..Len(hltbMap) : hltbMap[k].AppID = a})

\* C14: after any sequence of imports the cache holds at most one entry per
\* AppID; an import leaves every entry the cache held before it as it was,
\* and the count it prints is the number of entries it added.
C14_ImportKeepsFirstEntry ==
  /\ \A a \in AppIDs : MapCount(a) <= 1
  /\ mode = "-m" =>
       /\ Len(hltbMap) >= Len(mapBefore)
       /\ SubSeq(hltbMap, 1, Len(mapBefore)) = mapBefore
       /\ Len(printed) = 1
       /\ printed[1].n = Len(hltbMap) - Len(mapBefore)

\* an import has added entries to a cache that held an entry for an AppID
\* a user file records with other values
C14_Witness ==
  /\ mode = "-m"
  /\ Len(hltbMap) > Len(mapBefore)
  /\ \E k \in 1..Len(mapBefore), u \in Users : \E j \in 1..Len(store[u]) :
       /\ store[u][j].AppID = mapBefore[k].AppID
       /\ store[u][j].Rarest_Achievement # mapBefore[k].Rarest_Achievement

Ascending(mapFile) ==
  \A k \in 1..(Len(mapFile) - 1) : mapFile[k].AppID <= mapFile[k + 1].AppID

\* C15: a sort leaves the cache in ascending AppID order with exactly the
\* entries it held before, and leaves a cache that was in that order as it
\* was.
C15_SortKeepsEntries ==
  mode = "--sort" =>
    /\ Ascending(hltbMap)
    /\ Len(hltbMap) = Len(mapBefore)
    /\ \A e \in SeqToSet(mapBefore) :
         Cardinality({k \in 1..Len(hltbMap) : hltbMap[k] = e})
           = Cardinality({k \in 1..Len(mapBefore) : mapBefore[k] = e})
    /\ Ascending(mapBefore) => hltbMap = mapBefore

\* a cache that an import left out of order has been sorted
C15_Witness ==
  /\ mode = "--sort"
  /\ Len(mapBefore) >= 2
  /\ ~Ascending(mapBefore)

\* C16: the registry the sync reads loses AppIDs only in a refresh, and a
\* refresh removes an AppID only when its re-fetch shows achievements: every
\* AppID of the registry whose re-fetch is empty or fails is still in it
\* afterwards, and the refresh adds no AppID the registry did not hold.
C16_RefreshOnlyRemovesFetched ==
  /\ mode # "-u" => SeqToSet(noAchBefore) \subseteq SeqToSet(noAch)
  /\ (mode = "-u" /\ pc = "done") =>
       /\ SeqToSet(noAch) \subseteq SeqToSet(noAchBefore)
       /\ \A a \in SeqToSet(noAchBefore) :
            (catalog[a] = <<>> \/ a \in refetchNone) => a \in SeqToSet(noAch)

\* records the running pass has added to the user's store
SavedCount == Len(store[steamid]) - Len(storeAtStart)

\* AppIDs the running pass has added to the registry
RegisteredCount == Cardinality(SeqToSet(noAch) \ SeqToSet(noAchBefore))

\* C17 as stated: after the loop the pass reports the number of records it
\* saved and the number of items it skipped because of an error, and saved +
\* skipped + no-achievement items is the size of the pending set.
C17_SyncReportsCounts ==
  (PassDone /\ new_games # <<>>) =>
    /\ \E k \in 1..Len(printed) :
         printed[k].line = "saved" /\ printed[k].n = SavedCount
    /\ \E k \in 1..Len(printed) :
         printed[k].line = "skipped" /\ printed[k].n = Len(errors)
    /\ SavedCount + Len(errors) + RegisteredCount = Len(new_games)

\* C17: the pass prints nothing after its loop; it prints one line for each
\* item it skips because of an error, and the number of those lines plus the
\* records saved plus the AppIDs registered as without achievements is the
\* size of the pending set.
C17_SyncReportsErrorsOnly ==
  (PassDone /\ new_games # <<>>) =>
    /\ \A k \in 1..Len(printed) :
         printed[k] = Line("steam_hltb_map.json has been sorted.", 0)
    /\ Len(printed) = Cardinality(performed \ {"sync"})
    /\ SavedCount + Len(errors) + RegisteredCount = Len(new_games)

\* a pass over two pending items has ended with both skipped
C17_Witness ==
  /\ PassDone
  /\ Len(new_games) = 2
  /\ Len(errors) = 2

\* positions of the ownership list whose AppID is neither in the user's
\* store nor in the registry, as the pass found them
Unprocessed ==
  {k \in 1..Len(owned) :
     /\ \A j \in 1..Len(storeAtStart) : storeAtStart[j].AppID # owned[k].appid
     /\ \A j \in 1..Len(noAchBefore) : noAchBefore[j] # owned[k].appid}

\* C19: the pending list of a pass is the ownership list restricted to the
\* items whose AppID is neither in the user's store nor in the registry, in
\* the order of the ownership list; when it is empty the run ends with
\* success, having issued no achievement, completion or length query and
\* having changed no persisted file.
C19_PendingIsUnprocessedOwned ==
  ("sync" \in performed /\ pc \in {"loop", "done"}) =>
    /\ Len(new_games) = Cardinality(Unprocessed)
    /\ \E f \in [1..Len(new_games) -> Unprocessed] :
         /\ \A i, j \in 1..Len(new_games) : i < j => f[i] < f[j]
         /\ \A i \in 1..Len(new_games) : new_games[i] = owned[f[i]]
    /\ new_games = <<>> =>
         /\ pc = "done"
         /\ attempted = <<>>
         /\ achFetched = <<>>
         /\ lsQueried = <<>>
         /\ ~collabFailure
         /\ store[steamid] = storeAtStart
         /\ noAch = noAchBefore
         /\ "sort" \notin performed => hltbMap = mapBefore

\* of two owned items the first was in the registry and the second is the
\* pending list
C19_Witness ==
  /\ "sync" \in performed
  /\ pc \in {"loop", "done"}
  /\ Len(owned) = 2
  /\ owned[1].appid \in SeqToSet(noAchBefore)
  /\ new_games = <<owned[2]>>

\* C20: when a pass ends, every pending item with achievements for which the
\* fetch of the user's achievement states fails was not skipped and has a
\* Library Record whose Completed is unknown.
C20_FailedStateFetchGivesUnknown ==
  PassDone =>
    \A a \in playerDown :
      catalog[a] # <<>> =>
        /\ a \notin SeqToSet(errors)
        /\ \E j \in 1..Len(store[steamid]) :
             /\ store[steamid][j].AppID = a
             /\ store[steamid][j].Completed = None

\* C21: a pass, interrupted or not, keeps every Library Record and registry
\* entry it found; the items it has completed are in the store or in the
\* registry; and no item already in the store or in the registry is pending
\* again, also in the pass that follows an interrupted one.
C21_InterruptedPassKeepsProgress ==
  ("sync" \in performed /\ pc \in {"loop", "done", "killed"}) =>
    /\ \A j \in 1..Len(storeAtStart) :
         \E i \in 1..Len(store[steamid]) : store[steamid][i] = storeAtStart[j]
    /\ SeqToSet(noAchBefore) \subseteq SeqToSet(noAch)
    /\ \A a \in SeqToSet(attempted) \ SeqToSet(errors) :
         StoreCount(steamid, a) > 0 \/ a \in SeqToSet(noAch)
    /\ \A k \in 1..Len(new_games) :
         /\ new_games[k].appid \notin SeqToSet(noAchBefore)
         /\ \A j \in 1..Len(storeAtStart) :
              storeAtStart[j].AppID # new_games[k].appid

\* the pass after an interrupted one found records in the store, skipped an
\* owned item for them and has items left to process
C21_Witness ==
  /\ resumed
  /\ pc \in {"loop", "done"}
  /\ storeAtStart # <<>>
  /\ new_games # <<>>
  /\ Len(new_games) < Len(owned)

\* C22: when a pass ends, every pending item that was not in the Length
\* Lookup Cache and for which the Length Source has a result has an entry in
\* the persisted cache.
C22_SyncFillsCache ==
  PassDone =>
    \A a \in lengthFound : a \notin steam_hltb_data => MapCount(a) > 0

\* C27: an item whose processing raised an error is in neither the store of
\* the user nor the registry, and in the pass of the same user that follows,
\* every such item the user still owns is pending again.
C27_ErroredItemsRetried ==
  /\ [](("sync" \in performed /\ pc \in {"loop", "done", "killed"}) =>
          \A a \in SeqToSet(errors) :
            StoreCount(steamid, a) = 0 /\ a \notin SeqToSet(noAch))
  /\ [][(/\ "sync" \in performed
          /\ passes' = passes + 1
          /\ "sync" \in performed'
          /\ steamid' = steamid
          /\ pc' \in {"loop", "done"}) =>
           \A a \in SeqToSet(errors) :
             (\E k \in 1..Len(owned') : owned'[k].appid = a) =>
               \E k \in 1..Len(new_games') : new_games'[k].appid = a]_vars

C27_Witness ==
  /\ repeatPass
  /\ pc = "done"
  /\ errors # <<>>
  /\ \E k \in 1..Len(owned) : owned[k].appid \notin SeqToSet(errors)

-----------------------------------------------------------------------------
(* file_utils: save_to_json and save_appids_without_achievements called by *)
(* two processes                                                           *)

Procs == {1, 2}

NotWriting == [w_pc |-> "idle", file |-> "none", existing |-> <<>>, data |-> <<>>]

\* lists of appids handed to save_appids_without_achievements
AppidLists == {<<10>>, <<20>>, <<20, 10>>}

\* records handed to calls of save_to_json that have returned or are under way
RecsHandedOver ==
  LET m(p) == IF writers[p].file = "store" THEN Len(writers[p].data) ELSE 0
  IN handedOver.n + m(1) + m(2)

InitRace ==
  /\ MainIdle
  /\ HltbIdle
  /\ r_data = <<>>
  /\ r_out = <<>>
  /\ writers = [p \in Procs |-> NotWriting]
  /\ handedOver = [recs |-> [r \in SaveRecs |-> 0], appids |-> {}, n |-> 0]
  /\ overlapped = FALSE

\* the process opens the file and loads it (file_utils.py 80-82, 102-104)
ReadFile(p, file, data) ==
  /\ writers[p].w_pc = "idle"
  /\ file = "store" => RecsHandedOver + Len(data) <= MaxStore
  /\ writers' = [writers EXCEPT ![p] =
       [w_pc |-> "read", file |-> file,
        existing |-> IF file = "store" THEN store[UserA] ELSE noAch,
        data |-> data]]
  /\ overlapped' = (overlapped \/ \E q \in Procs \ {p} : writers[q].w_pc = "read")
  /\ UNCHANGED <<handedOver, r_data, r_out, mainVars, hltbVars>>

\* the process extends the list it loaded and writes the file
\* (file_utils.py 84-89, 106-110)
WriteFile(p) ==
  /\ writers[p].w_pc = "read"
  /\ IF writers[p].file = "store"
     THEN /\ store' = [store EXCEPT ![UserA] =
                         save_to_json(writers[p].existing, writers[p].data)]
          /\ handedOver' = [handedOver EXCEPT
               !.recs = [r \in SaveRecs |->
                           @[r] + Cardinality({k \in 1..Len(writers[p].data) :
                                                 writers[p].data[k] = r})],
               !.n = @ + Len(writers[p].data)]
          /\ UNCHANGED noAch
     ELSE /\ noAch' = save_appids_without_achievements(writers[p].existing,
                                                      writers[p].data)
          /\ handedOver' = [handedOver EXCEPT !.appids =
                             @ \cup SeqToSet(writers[p].data)]
          /\ UNCHANGED store
  /\ writers' = [writers EXCEPT ![p] = NotWriting]
  /\ UNCHANGED <<overlapped, r_data, r_out>>
  /\ UNCHANGED <<noAchData, hltbMap, catalog, pc, passes, passVars, modeVars>>
  /\ UNCHANGED hltbVars

NextRace ==
  \/ \E p \in Procs, data \in DataLists \ {<<>>} : ReadFile(p, "store", data)
  \/ \E p \in Procs, appids \in AppidLists : ReadFile(p, "registry", appids)
  \/ \E p \in Procs : WriteFile(p)

SpecRace == InitRace /\ [][NextRace]_vars

\* how often a record is in the store of UserA
RecCount(r) == Cardinality({j \in 1..Len(store[UserA]) : store[UserA][j] = r})

-----------------------------------------------------------------------------
(* steam_utils.get_rarest_achievement_percentage called on its own         *)

\* percents in hundredths; none is a tie of round(x, 1) that is inexact
\* in binary
RarityPercents == {0, 4, 725, 775, 996, 1234, 5000, 9996, 10000}

AchLists == UNION {[1..n -> RarityPercents] : n \in 1..MaxAch}

InitRarity ==
  /\ MainIdle
  /\ HltbIdle
  /\ r_data \in {Percents(hs) : hs \in AchLists}
  /\ r_out = None
  /\ writers = <<>>
  /\ handedOver = <<>>
  /\ overlapped = FALSE

Rarity ==
  /\ r_out = None
  /\ r_out' = Some(get_rarest_achievement_percentage(r_data))
  /\ UNCHANGED <<r_data, writers, handedOver, overlapped, mainVars, hltbVars>>

NextRarity == Rarity

SpecRarity == InitRarity /\ [][NextRarity]_vars

\* s is digits, one ".", one digit
OneDecimalString(s) ==
  /\ Len(s) >= 3
  /\ s[Len(s) - 1] = "."
  /\ \A k \in 1..Len(s) : k # Len(s) - 1 => s[k] \in SeqToSet(Digits)
  /\ (Len(s) > 3 => s[1] # "0")

\* C11: for every non-empty achievement list the rarity is the minimum
\* percent of the list written with exactly one decimal place (the decimal
\* nearest to that minimum); when all percents are equal it is that value
\* written so.
C11_RarityIsMinimumOneDecimal ==
  r_out # None =>
    LET s == r_out[1]
        m == MinPercent(r_data)
    IN /\ OneDecimalString(s)
       /\ 10 * Float(s) - m \in -5..5
       /\ \A k \in 1..Len(r_data) : 10 * Float(s) - 5 <= r_data[k].percent

C11_Witness ==
  /\ r_out # None
  /\ Len(r_data) = 3
  /\ r_data[2].percent < r_data[1].percent
  /\ r_data[2].percent < r_data[3].percent
  /\ r_data[2].percent % 10 # 0

-----------------------------------------------------------------------------
(* steam_hltb_mapping: the two refresh functions called on their own       *)

\* the loop body of update_rarest_achievement_percentages
RefreshRarityEntry(entry, cat, errs) ==
  LET appid == entry.AppID
      achievements == IF appid # 0
                      THEN get_game_achievement_data(cat, appid, appid \in errs)
                      ELSE None
  IN IF achievements # None
     THEN [entry EXCEPT !.Rarest_Achievement =
                          get_rarest_achievement_percentage(achievements[1])]
     ELSE entry

\* Variant: every entry is given the rarity of a fixed list.
AllEntriesRewritten(data, cat, errs) ==
  [k \in 1..Len(data) |->
     [data[k] EXCEPT !.Rarest_Achievement = FormatOneDecimal(0)]]

\* the list update_rarest_achievement_percentages writes
update_rarest_achievement_percentages(data, cat, errs) ==
  [k \in 1..Len(data) |-> RefreshRarityEntry(data[k], cat, errs)]

\* what search_from_id answers: times in thousandths of an hour, or no
\* usable result (None, a transport error)
TimeAnswer(raised, ms, me, co, al) ==
  [raised |-> raised, main_story |-> ms, main_extra |-> me,
   completionist |-> co, all_styles |-> al]

TimeAnswers ==
  { TimeAnswer(TRUE, 0, 0, 0, 0),
    TimeAnswer(FALSE, 1234, 1236, 4, 0),
    TimeAnswer(FALSE, 0, 0, 0, 0) }

HltbIds == {98, 99}

\* the value returned, or an exception
get_time_by_id(result) ==
  IF result.raised THEN [raised |-> TRUE, time |-> None]
  ELSE LET time == Round2(Max4(result.main_story, result.main_extra,
                               result.completionist, result.all_styles))
       IN [raised |-> FALSE, time |-> IF time = 0 THEN None ELSE Some(time)]

\* the loop body of update_hltb_completionist_times
RefreshTimeEntry(entry, answers) ==
  IF entry.HLTB_ID # None /\ entry.HLTB_ID # Some(0)
  THEN LET r == get_time_by_id(answers[entry.HLTB_ID[1]])
       IN IF r.raised THEN entry
          ELSE [entry EXCEPT !.HLTB_Completionist_Time = r.time]
  ELSE entry

\* Variant: the first exception ends the loop.
RECURSIVE TimesUntilError(_, _)
TimesUntilError(steam_hltb_map, answers) ==
  IF steam_hltb_map = <<>> THEN <<>>
  ELSE LET entry == Head(steam_hltb_map)
       IN IF /\ entry.HLTB_ID # None
             /\ get_time_by_id(answers[entry.HLTB_ID[1]]).raised
          THEN steam_hltb_map
          ELSE <<RefreshTimeEntry(entry, answers)>>
                 \o TimesUntilError(Tail(steam_hltb_map), answers)

\* the list update_hltb_completionist_times writes
update_hltb_completionist_times(steam_hltb_map, answers) ==
  [k \in 1..Len(steam_hltb_map) |->
     RefreshTimeEntry(steam_hltb_map[k], answers)]

\* caches the refresh functions are called on
MaintMaps ==
  InitMaps \cup
  { <<MapEntry(30, 990, None, None, None),
      MapEntry(10, 500, Some(99), Some(TitleOf(10)), Some(1000))>>,
    <<MapEntry(10, 123, Some(99), Some(TitleOf(10)), Some(1000)),
      MapEntry(20, 1000, Some(98), None, None),
      MapEntry(30, 995, None, None, Some(250))>> }

InitMaint ==
  /\ store = [u \in StoreOwners |-> <<>>]
  /\ noAch = <<>>
  /\ noAchData = None
  /\ hltbMap \in MaintMaps
  /\ catalog \in Catalogs
  /\ pc = "idle"
  /\ passes = 0
  /\ steamid = UserA
  /\ owned = <<>>
  /\ new_games = <<>>
  /\ idx = 1
  /\ steam_hltb_data = {}
  /\ attempted = <<>>
  /\ errors = <<>>
  /\ collabFailure = FALSE
  /\ playerDown = {}
  /\ lengthFound = {}
  /\ resumed = FALSE
  /\ achFetched = <<>>
  /\ lsQueried = <<>>
  /\ storeAtStart = <<>>
  /\ repeatPass = FALSE
  /\ ModeIdle
  /\ HltbIdle
  /\ FnIdle

\* what a call of a refresh function leaves alone
MaintFrame ==
  /\ passes < MaxPasses
  /\ passes' = passes + 1
  /\ mapBefore' = hltbMap
  /\ UNCHANGED <<store, noAch, noAchData, catalog, pc, passVars>>
  /\ UNCHANGED <<performed, resolution, ownedFetched, filesTouched,
                 noAchBefore, printed>>
  /\ UNCHANGED <<hltbVars, fnVars>>

\* update_rarest_achievement_percentages(); errs are the AppIDs whose
\* re-fetch ends in an HTTP error
RefreshRarity(errs) ==
  /\ MaintFrame
  /\ errs \subseteq load_existing_ids(hltbMap)
  /\ mode' = "rarity"
  /\ refetchNone' = {a \in load_existing_ids(hltbMap) :
                       a \in errs \/ catalog[a] = <<>>}
  /\ hltbMap' = update_rarest_achievement_percentages(hltbMap, catalog, errs)
  /\ timeAnswers' = <<>>

\* update_hltb_completionist_times()
RefreshLengths(answers) ==
  /\ MaintFrame
  /\ mode' = "lengths"
  /\ refetchNone' = {}
  /\ timeAnswers' = answers
  /\ hltbMap' = update_hltb_completionist_times(hltbMap, answers)

NextMaint ==
  \/ \E errs \in SUBSET AppIDs : RefreshRarity(errs)
  \/ \E answers \in [HltbIds -> TimeAnswers] : RefreshLengths(answers)

SpecMaint == InitMaint /\ [][NextMaint]_vars

\* the fields of a cache entry other than the rarity
SameButRarity(e, b) ==
  /\ e.AppID = b.AppID
  /\ e.Title = b.Title
  /\ e.HLTB_ID = b.HLTB_ID
  /\ e.HLTB_Title = b.HLTB_Title
  /\ e.HLTB_Completionist_Time = b.HLTB_Completionist_Time

\* C23: a rarity refresh keeps the entries of the cache and their order; an
\* entry whose achievement list comes back empty or fails to load is
\* unchanged, and any other entry changes in its rarity only, which becomes
\* the rarity of the list fetched.
C23_RarityRefreshFrame ==
  mode = "rarity" =>
    /\ Len(hltbMap) = Len(mapBefore)
    /\ \A k \in 1..Len(hltbMap) :
         LET e == hltbMap[k]
             b == mapBefore[k]
         IN /\ SameButRarity(e, b)
            /\ b.AppID \in refetchNone => e = b
            /\ b.AppID \notin refetchNone =>
                 /\ OneDecimalString(e.Rarest_Achievement)
                 /\ 10 * Float(e.Rarest_Achievement) - MinPercent(catalog[b.AppID])
                      \in -5..5

C23_Witness ==
  /\ mode = "rarity"
  /\ \E k \in 1..Len(mapBefore) : mapBefore[k].AppID \in refetchNone
  /\ \E k \in 1..Len(mapBefore) :
       /\ mapBefore[k].AppID \notin refetchNone
       /\ hltbMap[k] # mapBefore[k]
  /\ \E k \in 1..Len(mapBefore) - 1 : mapBefore[k].AppID > mapBefore[k + 1].AppID

\* the fields of a cache entry other than the completionist time
SameButTime(e, b) ==
  /\ e.AppID = b.AppID
  /\ e.Title = b.Title
  /\ e.Rarest_Achievement = b.Rarest_Achievement
  /\ e.HLTB_ID = b.HLTB_ID
  /\ e.HLTB_Title = b.HLTB_Title

\* the greatest of the four times answered, to two decimals, None for zero
LongestTime(answer) ==
  LET m == CHOOSE t \in {answer.main_story, answer.main_extra,
                         answer.completionist, answer.all_styles} :
             \A u \in {answer.main_story, answer.main_extra,
                        answer.completionist, answer.all_styles} : u <= t
      h == CHOOSE x \in 0..m : 10 * x - m \in -5..5
  IN IF h = 0 THEN None ELSE Some(h)

\* C24: a length refresh keeps the entries of the cache and their order,
\* leaves every entry without an HLTB ID untouched, leaves an entry whose
\* lookup fails unchanged, and gives every other entry with an HLTB ID the
\* time re-resolved by that id, whatever happened to the entries before it.
C24_LengthRefreshFrame ==
  mode = "lengths" =>
    /\ Len(hltbMap) = Len(mapBefore)
    /\ \A k \in 1..Len(hltbMap) :
         LET e == hltbMap[k]
             b == mapBefore[k]
         IN /\ SameButTime(e, b)
            /\ b.HLTB_ID = None => e = b
            /\ b.HLTB_ID # None =>
                 LET answer == timeAnswers[b.HLTB_ID[1]]
                 IN IF answer.raised THEN e = b
                    ELSE e.HLTB_Completionist_Time = LongestTime(answer)

C24_Witness ==
  /\ mode = "lengths"
  /\ \E j, k \in 1..Len(mapBefore) :
       /\ j < k
       /\ mapBefore[j].HLTB_ID # None
       /\ timeAnswers[mapBefore[j].HLTB_ID[1]].raised
       /\ mapBefore[k].HLTB_ID # None
       /\ hltbMap[k] # mapBefore[k]
  /\ \E k \in 1..Len(mapBefore) : mapBefore[k].HLTB_ID = None

====
